---- MODULE Spec2Model ----
(***************************************************************************)
(* Model of src/streamlit_app.py: the caption pipeline of                  *)
(* YouTubeCaptionGenerator and the batch loop of main().                   *)
(*                                                                         *)
(* Python str values are TLA+ strings (TLC evaluates Len, \o, Head, Tail   *)
(* and SubSeq on them).  An optional value (Python None or a value) is a   *)
(* sequence of length 0 or 1: None is <<>>, the value v is <<v>>.          *)
(* The two emoji of the source's message literals are written as ASCII:    *)
(* the cross mark is "(x)".                                                *)
(***************************************************************************)
EXTENDS Integers, Sequences, FiniteSets, TLC

\* ------------------------------------------------------------------ bounds
\* the largest number of lines typed into the text area
MaxLines == 2

\* ------------------------------------------------------- optional values
None == <<>>
Some(v) == <<v>>
IsNone(o) == o = <<>>
Val(o) == o[1]

\* ------------------------------------------------------ Python str methods
\* str.isspace() of one character
IsSpace(c) == c \in {" ", "\t", "\n", "\r", "\f"}

\* the character s[k] (1-based)
CharAt(s, k) == SubSeq(s, k, k)

RECURSIVE LStrip(_)
LStrip(s) ==
    IF Len(s) = 0 THEN s
    ELSE IF IsSpace(CharAt(s, 1)) THEN LStrip(SubSeq(s, 2, Len(s)))
    ELSE s

RECURSIVE RStrip(_)
RStrip(s) ==
    IF Len(s) = 0 THEN s
    ELSE IF IsSpace(CharAt(s, Len(s))) THEN RStrip(SubSeq(s, 1, Len(s) - 1))
    ELSE s

\* str.strip()
Strip(s) == RStrip(LStrip(s))

\* sub in s
Contains(s, sub) ==
    \E k \in 1..(Len(s) - Len(sub) + 1) : SubSeq(s, k, k + Len(sub) - 1) = sub

\* s.startswith(prefix)
StartsWith(s, prefix) ==
    Len(s) >= Len(prefix) /\ SubSeq(s, 1, Len(prefix)) = prefix

\* s.find(sub) + 1, or 0 when sub does not occur
Find(s, sub) ==
    IF Contains(s, sub)
    THEN CHOOSE k \in 1..(Len(s) - Len(sub) + 1) :
            /\ SubSeq(s, k, k + Len(sub) - 1) = sub
            /\ \A j \in 1..(k - 1) : SubSeq(s, j, j + Len(sub) - 1) # sub
    ELSE 0

\* the places in s where sep, one character, stands
SepAt(s, sep) == { k \in 1..Len(s) : CharAt(s, k) = sep }

\* the j-th place of SepAt in increasing order; 0 for j = 0 and Len(s) + 1
\* past the last one
NthSep(s, sep, j) ==
    IF j = 0 THEN 0
    ELSE IF j > Cardinality(SepAt(s, sep)) THEN Len(s) + 1
    ELSE CHOOSE k \in SepAt(s, sep) :
            Cardinality({ p \in SepAt(s, sep) : p < k }) = j - 1

\* s.split(sep) for a separator of one character: the list of pieces, never
\* empty
Split(s, sep) ==
    [ j \in 1..(Cardinality(SepAt(s, sep)) + 1) |->
         SubSeq(s, NthSep(s, sep, j - 1) + 1, NthSep(s, sep, j) - 1) ]

\* sep.join(parts)
RECURSIVE Join(_, _)
Join(sep, parts) ==
    IF Len(parts) = 0 THEN ""
    ELSE IF Len(parts) = 1 THEN parts[1]
    ELSE parts[1] \o sep \o Join(sep, Tail(parts))

\* s.replace(old, new), every occurrence, left to right
RECURSIVE Replace(_, _, _)
Replace(s, old, new) ==
    LET k == Find(s, old) IN
    IF k = 0 THEN s
    ELSE SubSeq(s, 1, k - 1) \o new
         \o Replace(SubSeq(s, k + Len(old), Len(s)), old, new)

\* s.isdigit() for ASCII text
IsDigit(s) ==
    /\ Len(s) > 0
    /\ \A k \in 1..Len(s) :
          CharAt(s, k) \in {"0", "1", "2", "3", "4", "5", "6", "7", "8", "9"}

\* s repeated n times
RECURSIVE Rep(_, _)
Rep(s, n) == IF n = 0 THEN "" ELSE s \o Rep(s, n - 1)

\* ------------------------------------------------------------ environment
\* values of os.getenv('OPENAI_API_KEY'): unset, set to the empty string, set
EnvKeys == {None, Some(""), Some("sk-test")}

\* lines the user may type into the text area for a batch: a short-form URL
\* with blanks around it, a line that is no video URL, a blank line
InputLines ==
    { " https://www.youtube.com/shorts/zfqpjjxtqCk ",
      "not-a-video-url",
      "  " }

\* further one-line inputs: the other recognized shape and a video URL that is
\* not short-form
SingleInputs ==
    { "https://youtu.be/abc", "https://www.youtube.com/watch?v=abc" }

\* all sequences over S of length 0..n
SeqsUpTo(S, n) == UNION { [1..k -> S] : k \in 0..n }

\* contents of the text area
InputTexts ==
    { Join("\n", ls) : ls \in SeqsUpTo(InputLines, MaxLines) } \cup SingleInputs

\* cue files the subtitle tool may write
VttFiles ==
    { "WEBVTT\n\n1\n00:00:00.000 --> 00:00:02.000\nHello world\n",
      "WEBVTT\n\n00:00:00.000 --> 00:00:01.000\n  \n",
      "WEBVTT\nKind: captions\nLanguage: en\n\n00:00:00.000 --> 00:00:02.000\n Take a breath \n" }

\* outcomes of the subtitle tool run (subprocess.run, timeout=60): the wait
\* expired, the tool could not be started, it exited non-zero (having
\* written a cue file or not), or it exited zero with or without a cue file
SubtitleOutcomes ==
    { [exit |-> "timeout", vtt |-> None], [exit |-> "raise", vtt |-> None],
      [exit |-> "nonzero", vtt |-> None], [exit |-> "zero", vtt |-> None],
      [exit |-> "nonzero",
       vtt |-> Some("WEBVTT\n\n1\n00:00:00.000 --> 00:00:02.000\nHello world\n")] }
    \cup { [exit |-> "zero", vtt |-> Some(c)] : c \in VttFiles }

\* extensions the downloader may give its output files
Exts == {"mp3", "m4a", "webm"}

\* size in bytes of a file the downloader wrote
WrittenSizes == {4096}

\* outcomes of the downloader run (subprocess.run, timeout=120): how it
\* ended, which output files it wrote and whether it removed what was at the
\* .mp3 path.  A run that exits zero may write any of the three files and may
\* remove the .mp3 file; a run that exits non-zero or is killed at the timeout
\* leaves nothing or the partly downloaded .webm stream; a tool that could
\* not be started (exit "raise") does nothing.
DownloadOutcomes ==
    { [exit |-> "zero", written |-> w, removed |-> r, size |-> z] :
        w \in SUBSET Exts, r \in BOOLEAN, z \in WrittenSizes }
    \cup
    { [exit |-> e, written |-> w, removed |-> FALSE, size |-> z] :
        e \in {"nonzero", "timeout"}, w \in {{}, {"webm"}}, z \in WrittenSizes }
    \cup
    { [exit |-> "raise", written |-> {}, removed |-> FALSE, size |-> z] :
        z \in WrittenSizes }

\* outcomes of client.audio.transcriptions.create
WhisperOutcomes ==
    { [raised |-> FALSE, text |-> t, err |-> ""] :
        t \in {"", Rep("ab", 100), Rep("ab", 100) \o "c"} }
    \cup { [raised |-> TRUE, text |-> "", err |-> "Connection error."] }

\* outcomes of client.chat.completions.create
ChatOutcomes ==
    { [raised |-> FALSE, text |-> "  Breathe better today!\n", err |-> ""],
      [raised |-> TRUE, text |-> "", err |-> "Rate limit reached"] }

\* outcomes of os.unlink
UnlinkOutcomes ==
    { [raised |-> FALSE, err |-> ""],
      [raised |-> TRUE, err |-> "[Errno 13] Permission denied"] }

\* ------------------------------------------------------------- file system
\* the disk is a function from the paths that exist to their sizes
EmptyDisk == [p \in {} |-> 0]
Exists(d, p) == p \in DOMAIN d
WriteFile(d, p, sz) == [q \in (DOMAIN d) \cup {p} |-> IF q = p THEN sz ELSE d[q]]
RemoveFile(d, p) == [q \in (DOMAIN d) \ {p} |-> d[q]]

\* tempfile.NamedTemporaryFile(suffix='.mp3'): a name no other call gets;
\* _download_audio runs at most once for a URL, so the name is made from the
\* number of the URL
TempName(n) == "/tmp/tmp" \o <<"a", "b", "c", "d", "e", "f", "g", "h">>[n] \o ".mp3"

\* ------------------------------------------------- functions of the code
\* Python truthiness of an optional str: neither None nor ''
Truthy(o) == ~IsNone(o) /\ Val(o) # ""

\* variant of KeyMissing: the `not` dropped
KeyMissingInverted(key) == Truthy(key)

\* main: `if not os.getenv('OPENAI_API_KEY')`
KeyMissing(key) == ~Truthy(key)

\* main: [url.strip() for url in urls_text.split('\n') if url.strip()]
RECURSIVE StripNonBlank(_)
StripNonBlank(lines) ==
    IF Len(lines) = 0 THEN <<>>
    ELSE (IF Strip(lines[1]) # "" THEN <<Strip(lines[1])>> ELSE <<>>)
         \o StripNonBlank(Tail(lines))

ParseUrls(text) == StripNonBlank(Split(text, "\n"))

\* variant of InvalidUrl: the second `not` dropped
InvalidUrlDroppedNot(youtube_url) ==
    ~Contains(youtube_url, "youtube.com/shorts/") /\ Contains(youtube_url, "youtu.be/")

\* process_shorts_url: the URL shape check
InvalidUrl(youtube_url) ==
    ~Contains(youtube_url, "youtube.com/shorts/") /\ ~Contains(youtube_url, "youtu.be/")

\* _get_auto_transcript: the cue lines kept
KeepLine(line) ==
    /\ line # ""
    /\ ~StartsWith(line, "WEBVTT")
    /\ ~Contains(line, "-->")
    /\ ~IsDigit(line)

RECURSIVE TranscriptLines(_)
TranscriptLines(lines) ==
    IF Len(lines) = 0 THEN <<>>
    ELSE (IF KeepLine(Strip(lines[1])) THEN <<Strip(lines[1])>> ELSE <<>>)
         \o TranscriptLines(Tail(lines))

\* _get_auto_transcript: text of a cue file
ParseVtt(vtt_content) == Join(" ", TranscriptLines(Split(vtt_content, "\n")))

\* _get_auto_transcript: the cue file read, if one is read
VttRead(o) == IF o.exit = "zero" THEN o.vtt ELSE None

\* variant of AutoTranscript: the exit code is not looked at
AutoTranscriptIgnoresExit(o) ==
    IF ~IsNone(o.vtt) THEN Some(ParseVtt(Val(o.vtt))) ELSE None

\* _get_auto_transcript: the value returned for a run of the subtitle tool
AutoTranscript(o) ==
    IF o.exit = "zero" /\ ~IsNone(o.vtt) THEN Some(ParseVtt(Val(o.vtt))) ELSE None

\* variant of FoundAutoTranscript: `if transcript is not None:`
FoundAutoTranscriptNotNone(transcript) == ~IsNone(transcript)

\* variant of FoundAutoTranscript: the test inverted
FoundAutoTranscriptInverted(transcript) == ~Truthy(transcript)

\* _extract_transcript: `if transcript:` after the subtitle tier
FoundAutoTranscript(transcript) == Truthy(transcript)

\* variant of NoTranscript: `if transcript is None:`
NoTranscriptIsNone(transcript) == IsNone(transcript)

\* process_shorts_url: `if not transcript:`
NoTranscript(transcript) == ~Truthy(transcript)

\* variant of HasAudio: the check left out
HasAudioAlways(audio_path) == TRUE

\* _extract_transcript: `if audio_path:`
HasAudio(audio_path) == Truthy(audio_path)

\* variant of AudioUnusable: the size is not looked at
AudioUnusableIfMissing(d, p) == p \notin DOMAIN d

\* _transcribe_audio, lines 177-186: the file is missing or empty
AudioUnusable(d, p) == p \notin DOMAIN d \/ d[p] = 0

\* _download_audio: the -o template and the names the downloader fills in
OutputTemplate(temp_path) == Replace(temp_path, ".mp3", ".%(ext)s")
OutputPath(template, ext) == Replace(template, "%(ext)s", ext)

\* variant of PossibleFiles: .webm looked for before .m4a
PossibleFilesWebmFirst(temp_path) ==
    << temp_path, Replace(temp_path, ".mp3", ".webm"), Replace(temp_path, ".mp3", ".m4a") >>

\* _download_audio: possible_files, in order
PossibleFiles(temp_path) ==
    << temp_path, Replace(temp_path, ".mp3", ".m4a"), Replace(temp_path, ".mp3", ".webm") >>

\* _download_audio: the first possible file that exists, or None
FirstExisting(d, files) ==
    IF \E k \in 1..Len(files) : Exists(d, files[k])
    THEN Some(files[CHOOSE k \in 1..Len(files) :
                      /\ Exists(d, files[k])
                      /\ \A j \in 1..(k - 1) : ~Exists(d, files[j])])
    ELSE None

\* the disk after a run of the downloader with outcome o
RECURSIVE WriteAll(_, _, _, _)
WriteAll(d, template, exts, sz) ==
    IF exts = {} THEN d
    ELSE LET e == CHOOSE e \in exts : TRUE IN
         WriteAll(WriteFile(d, OutputPath(template, e), sz), template, exts \ {e}, sz)

AfterDownload(d, temp_path, o) ==
    LET removed == IF o.removed /\ "mp3" \notin o.written
                   THEN RemoveFile(d, temp_path) ELSE d
    IN WriteAll(removed, OutputTemplate(temp_path), o.written, o.size)

\* process_shorts_url: the dicts it returns; a key that is not set is None
Failure(error) ==
    [success |-> FALSE, caption |-> None, transcript |-> None,
     error |-> Some(error), url |-> None]

\* process_shorts_url: the number of transcript characters shown
PreviewLimit == 200

\* variant of Preview: `>=` for `>`
PreviewOffByOne(transcript) ==
    IF Len(transcript) >= PreviewLimit
    THEN SubSeq(transcript, 1, PreviewLimit) \o "..." ELSE transcript

\* process_shorts_url: transcript[:200] + '...' if len(transcript) > 200 else transcript
Preview(transcript) ==
    IF Len(transcript) > PreviewLimit
    THEN SubSeq(transcript, 1, PreviewLimit) \o "..." ELSE transcript

\* variant of SuccessResult: a caption that reports an error makes a failure
SuccessResultFailOnSentinel(caption, transcript) ==
    IF StartsWith(caption, "(x) Caption error: ")
    THEN Failure(caption)
    ELSE [success |-> TRUE, caption |-> Some(caption),
          transcript |-> Some(Preview(transcript)), error |-> None, url |-> None]

\* process_shorts_url, lines 66-70: the dict of a success
SuccessResult(caption, transcript) ==
    [success |-> TRUE, caption |-> Some(caption), transcript |-> Some(Preview(transcript)),
     error |-> None, url |-> None]

\* variant of HandleException: the exception leaves process_shorts_url and
\* ends the script run
HandleExceptionReraise(e) == [pc |-> "crashed", result |-> None]

\* process_shorts_url: `except Exception as e`, what the function does with
\* an exception that reaches it
HandleException(e) == [pc |-> "append", result |-> Some(Failure(e))]

\* _generate_caption: the value returned for a remote call with outcome o
CaptionText(o) ==
    IF o.raised THEN "(x) Caption error: " \o o.err ELSE Strip(o.text)

\* variant of RecordResult: only the successes are collected
RecordResultSuccessOnly(rs, r, url) ==
    IF r.success THEN Append(rs, [r EXCEPT !.url = Some(url)]) ELSE rs

\* main: result['url'] = url; results.append(result)
RecordResult(rs, r, url) == Append(rs, [r EXCEPT !.url = Some(url)])

\* main: [r for r in results if r['success']] and its complement, counted
RECURSIVE CountSuccess(_)
CountSuccess(rs) ==
    IF Len(rs) = 0 THEN 0
    ELSE (IF rs[1].success THEN 1 ELSE 0) + CountSuccess(Tail(rs))

RECURSIVE CountFailed(_)
CountFailed(rs) ==
    IF Len(rs) = 0 THEN 0
    ELSE (IF ~rs[1].success THEN 1 ELSE 0) + CountFailed(Tail(rs))

\* the nearest integer to 1000 * n / d, a tie going to the even one
RoundedPermille(n, d) ==
    LET q == (1000 * n) \div d
        r == (1000 * n) % d
    IN IF 2 * r > d THEN q + 1
       ELSE IF 2 * r < d THEN q
       ELSE IF q % 2 = 0 THEN q ELSE q + 1

\* variant of SuccessRate: the failures divided by the total
SuccessRateOfFailed(successful, total) == RoundedPermille(total - successful, total)

\* main: f"{len(successful)/len(results)*100:.1f}%", in tenths of a percent
SuccessRate(successful, total) == RoundedPermille(successful, total)

\* an entry of the call log: function fn ran for URL number i; ext tells
\* whether it called its external tool or remote service, outcome how that
\* ended, ret what the function returned, err the text of the exception
Ev(i_, fn, ext, outcome, ret, err) ==
    [i |-> i_, fn |-> fn, ext |-> ext, outcome |-> outcome, ret |-> ret, err |-> err]

\* -------------------------------------------------------------------- state
VARIABLES
    env_key,      \* os.getenv('OPENAI_API_KEY')
    urls_text,    \* contents of the text area
    button,       \* whether "Generate Captions" was pressed for this script run
    pc,           \* position of the script run
    urls,         \* main: the parsed URL list
    i,            \* main: number of the URL being processed (enumerate index + 1)
    results,      \* main: the list of result dicts
    result,       \* the dict process_shorts_url returns for the current URL
    transcript,   \* the transcript of the current URL
    vtt_content,  \* _get_auto_transcript: the cue file it read
    temp_path,    \* _download_audio: the name of the temporary file
    audio_path,   \* _extract_transcript: the path _download_audio returned
    disk,         \* the files on disk under the temporary name of the current
                  \* URL's run, with their sizes; each run gets a new name, so
                  \* what earlier runs left is never named again and is not kept
    calls,        \* log of the functions run for the current URL
    summary       \* main: the metrics of the results summary

vars == << env_key, urls_text, button, pc, urls, i, results, result, transcript,
           vtt_content, temp_path, audio_path, disk, calls, summary >>

Init ==
    /\ env_key \in EnvKeys
    /\ urls_text \in InputTexts
    /\ button \in BOOLEAN
    /\ pc = "main"
    /\ urls = <<>>
    /\ i = 0
    /\ results = <<>>
    /\ result = None
    /\ transcript = None
    /\ vtt_content = None
    /\ temp_path = None
    /\ audio_path = None
    /\ disk = EmptyDisk
    /\ calls = <<>>
    /\ summary = None

\* main, lines 296-302: the credential check, st.stop() when it is missing
CheckKey ==
    /\ pc = "main"
    /\ pc' = IF KeyMissing(env_key) THEN "stopped" ELSE "input"
    /\ UNCHANGED << env_key, urls_text, button, urls, i, results, result, transcript,
                    vtt_content, temp_path, audio_path, disk, calls, summary >>

\* main, lines 319-335: the button, the blank-input returns, the URL parse
GenerateCaptions ==
    /\ pc = "input"
    /\ IF ~button \/ Strip(urls_text) = "" \/ Len(ParseUrls(urls_text)) = 0
       THEN /\ pc' = "done"
            /\ UNCHANGED << urls, i, results >>
       ELSE /\ urls' = ParseUrls(urls_text)
            /\ results' = <<>>
            /\ i' = 1
            /\ pc' = "loop"
    /\ UNCHANGED << env_key, urls_text, button, result, transcript, vtt_content, temp_path,
                    audio_path, disk, calls, summary >>

\* process_shorts_url, lines 49-56: entry and URL validation
ProcessShortsUrl ==
    /\ pc = "loop"
    /\ calls' = <<Ev(i, "process_shorts_url", FALSE, "ok", None, "")>>
    /\ IF InvalidUrl(urls[i])
       THEN /\ result' = Some(Failure("Invalid YouTube URL"))
            /\ pc' = "append"
       ELSE /\ result' = None
            /\ pc' = "fetch"
    /\ UNCHANGED << env_key, urls_text, button, urls, i, results, transcript, vtt_content, temp_path,
                    audio_path, disk, summary >>

\* _get_auto_transcript, lines 95-125, and lines 78-83 of _extract_transcript
GetAutoTranscript ==
    /\ pc = "fetch"
    /\ \E o \in SubtitleOutcomes :
         LET t == AutoTranscript(o) IN
         /\ calls' = Append(calls, Ev(i, "_get_auto_transcript", TRUE, o.exit, t, ""))
         /\ transcript' = t
         /\ vtt_content' = VttRead(o)
         /\ pc' = IF FoundAutoTranscript(t) THEN "resolved" ELSE "acquire"
    /\ UNCHANGED << env_key, urls_text, button, urls, i, results, result, temp_path,
                    audio_path, disk, summary >>

\* _download_audio, lines 127-169, and lines 86-87, 93 of _extract_transcript
DownloadAudio ==
    /\ pc = "acquire"
    /\ \E o \in DownloadOutcomes :
         LET name == TempName(i)
             created == WriteFile(disk, name, 0)
             after == AfterDownload(created, name, o)
             found == IF o.exit = "zero"
                      THEN FirstExisting(after, PossibleFiles(name)) ELSE None
         IN
         /\ temp_path' = Some(name)
         /\ disk' = after
         /\ audio_path' = found
         /\ calls' = Append(calls, Ev(i, "_download_audio", TRUE, o.exit, found, ""))
         /\ IF HasAudio(found)
            THEN UNCHANGED transcript /\ pc' = "transcribe"
            ELSE transcript' = None /\ pc' = "resolved"
    /\ UNCHANGED << env_key, urls_text, button, urls, i, results, result, vtt_content,
                    summary >>

\* _transcribe_audio, lines 171-200, called at line 88
TranscribeAudio ==
    /\ pc = "transcribe"
    /\ LET p == Val(audio_path) IN
       IF AudioUnusable(disk, p)
       THEN /\ transcript' = None
            /\ calls' = Append(calls, Ev(i, "_transcribe_audio", FALSE, "skipped", None, ""))
       ELSE \E o \in WhisperOutcomes :
              LET t == IF o.raised THEN None ELSE Some(o.text) IN
              /\ transcript' = t
              /\ calls' = Append(calls, Ev(i, "_transcribe_audio", TRUE,
                                           IF o.raised THEN "raise" ELSE "ok", t, o.err))
    /\ pc' = "delete"
    /\ UNCHANGED << env_key, urls_text, button, urls, i, results, result, vtt_content, temp_path,
                    audio_path, disk, summary >>

\* _extract_transcript, lines 89-91: delete the audio file, return the transcript
Unlink ==
    /\ pc = "delete"
    /\ LET p == Val(audio_path) IN
       IF Exists(disk, p)
       THEN \E o \in UnlinkOutcomes :
              IF o.raised
              THEN /\ pc' = HandleException(o.err).pc
                   /\ result' = HandleException(o.err).result
                   /\ calls' = Append(calls, Ev(i, "os.unlink", FALSE, "raise", None, o.err))
                   /\ UNCHANGED disk
              ELSE /\ pc' = "resolved"
                   /\ disk' = RemoveFile(disk, p)
                   /\ calls' = Append(calls, Ev(i, "os.unlink", FALSE, "ok", None, ""))
                   /\ UNCHANGED result
       ELSE /\ pc' = "resolved"
            /\ UNCHANGED << disk, calls, result >>
    /\ UNCHANGED << env_key, urls_text, button, urls, i, results, transcript, vtt_content, temp_path,
                    audio_path, summary >>

\* process_shorts_url, lines 59-61: the transcript came back
CheckTranscript ==
    /\ pc = "resolved"
    /\ IF NoTranscript(transcript)
       THEN /\ result' = Some(Failure("Could not extract transcript"))
            /\ pc' = "append"
       ELSE /\ pc' = "caption"
            /\ UNCHANGED result
    /\ UNCHANGED << env_key, urls_text, button, urls, i, results, transcript, vtt_content, temp_path,
                    audio_path, disk, calls, summary >>

\* _generate_caption, lines 202-245, and lines 64-70 of process_shorts_url
GenerateCaption ==
    /\ pc = "caption"
    /\ IF ~Truthy(transcript)
       THEN LET caption == "(x) No transcript available" IN
            /\ calls' = Append(calls, Ev(i, "_generate_caption", FALSE, "skipped",
                                         Some(caption), ""))
            /\ result' = IF IsNone(transcript)
                         THEN HandleException("object of type 'NoneType' has no len()").result
                         ELSE Some(SuccessResult(caption, Val(transcript)))
       ELSE \E o \in ChatOutcomes :
              LET caption == CaptionText(o) IN
              /\ calls' = Append(calls, Ev(i, "_generate_caption", TRUE,
                                           IF o.raised THEN "raise" ELSE "ok",
                                           Some(caption), o.err))
              /\ result' = Some(SuccessResult(caption, Val(transcript)))
    /\ pc' = "append"
    /\ UNCHANGED << env_key, urls_text, button, urls, i, results, transcript, vtt_content, temp_path,
                    audio_path, disk, summary >>

\* main, lines 342-355: process_shorts_url has returned (its locals are
\* gone); record the result, go to the next URL
AppendResult ==
    /\ pc = "append"
    /\ results' = RecordResult(results, Val(result), urls[i])
    /\ result' = None
    /\ transcript' = None
    /\ vtt_content' = None
    /\ temp_path' = None
    /\ audio_path' = None
    /\ calls' = <<>>
    /\ disk' = EmptyDisk
    /\ i' = i + 1
    /\ pc' = IF i + 1 > Len(urls) THEN "summary" ELSE "loop"
    /\ UNCHANGED << env_key, urls_text, button, urls, summary >>

\* main, lines 357-372: the results summary
Summary ==
    /\ pc = "summary"
    /\ IF Len(results) = 0
       THEN /\ pc' = "crashed"
            /\ UNCHANGED summary
       ELSE /\ summary' = Some([total |-> Len(results),
                                successful |-> CountSuccess(results),
                                failed |-> CountFailed(results),
                                rate |-> SuccessRate(CountSuccess(results), Len(results))])
            /\ pc' = "done"
    /\ UNCHANGED << env_key, urls_text, button, urls, i, results, result, transcript,
                    vtt_content, temp_path, audio_path, disk, calls >>

Next ==
    \/ CheckKey
    \/ GenerateCaptions
    \/ ProcessShortsUrl
    \/ GetAutoTranscript
    \/ DownloadAudio
    \/ TranscribeAudio
    \/ Unlink
    \/ CheckTranscript
    \/ GenerateCaption
    \/ AppendResult
    \/ Summary

Spec == Init /\ [][Next]_vars

\* the script run is sequential code whose calls all return, raise or hit
\* their timeouts: a step that can be taken is taken
FairSpec == Spec /\ WF_vars(Next)

\* ----------------------------------------------------------- properties
\* positions inside process_shorts_url, and the one right after its return
Processing == {"fetch", "acquire", "transcribe", "delete", "resolved", "caption", "append"}

\* the batch loop of main has finished
LoopFinished == pc \in {"summary", "done"} /\ Len(urls) > 0

\* the set of log entries
Entries == { calls[k] : k \in 1..Len(calls) }

\* the URL has neither of the two recognized short-form shapes
LacksShape(u) ==
    \A k \in 1..Len(u) :
        /\ k + 18 <= Len(u) => SubSeq(u, k, k + 18) # "youtube.com/shorts/"
        /\ k + 8 <= Len(u) => SubSeq(u, k, k + 8) # "youtu.be/"

\* C1: after the batch loop there is exactly one result per input URL, the
\* k-th result carrying the k-th URL; while the loop runs the results are
\* those of the URLs already handled, in order.
C1_OneResultPerUrl ==
    /\ Len(results) <= Len(urls)
    /\ \A k \in 1..Len(results) : results[k].url = Some(urls[k])
    /\ pc \in Processing \cup {"loop"} => Len(results) = i - 1
    /\ LoopFinished => Len(results) = Len(urls)
    /\ pc = "done" /\ button /\ Len(ParseUrls(urls_text)) > 0 => LoopFinished

C1_Witness ==
    /\ pc = "done"
    /\ Len(urls) = 2
    /\ urls[1] # urls[2]
    /\ Len(results) = 2
    /\ ~results[1].success
    /\ results[2].success

\* C2: a URL without the short-form shape gets the failure result with the
\* reason "Invalid YouTube URL", and no function with an external call runs
\* for it.
C2_InvalidUrlRejected ==
    /\ pc \in Processing /\ LacksShape(urls[i]) =>
         /\ pc = "append"
         /\ ~IsNone(result)
         /\ ~Val(result).success
         /\ Val(result).error = Some("Invalid YouTube URL")
         /\ \A e \in Entries : e.fn = "process_shorts_url" /\ ~e.ext
         /\ IsNone(temp_path)
    /\ \A k \in 1..Len(results) :
         LacksShape(urls[k]) =>
            /\ ~results[k].success
            /\ results[k].error = Some("Invalid YouTube URL")

C2_Witness ==
    /\ pc = "append"
    /\ urls[i] = "not-a-video-url"
    /\ ~IsNone(result)
    /\ ~Val(result).success

\* C3: when the Subtitle Fetcher returns non-empty text, neither the Audio
\* Acquirer nor the Speech Transcriber runs for that URL and the transcript
\* the Resolver returns is the fetched text.
C3_ShortCircuit ==
    \A e \in Entries :
       e.fn = "_get_auto_transcript" /\ Truthy(e.ret) =>
          /\ pc \notin {"acquire", "transcribe", "delete"}
          /\ \A f \in Entries :
                f.fn \notin {"_download_audio", "_transcribe_audio", "os.unlink"}
          /\ IsNone(temp_path) /\ IsNone(audio_path)
          /\ pc \in {"resolved", "caption", "append"} => transcript = e.ret

C3_Witness ==
    /\ pc = "resolved"
    /\ transcript = Some("Hello world")
    /\ \E e \in Entries : e.fn = "_get_auto_transcript" /\ e.ret = Some("Hello world")

\* C4: when the Resolver returns from the audio fallback, none of the
\* temporary audio files of this URL's run is on disk.
C4_AudioFilesDeleted ==
    pc = "resolved" /\ ~IsNone(temp_path) =>
       \A k \in 1..3 : ~Exists(disk, PossibleFiles(Val(temp_path))[k])

\* a result that reports a failed stage
FaultResult(r) ==
    \/ r.error \in {Some("Could not extract transcript"),
                    Some("[Errno 13] Permission denied")}
    \/ ~IsNone(r.caption) /\ StartsWith(Val(r.caption), "(x) Caption error: ")

\* C5: a fault, timeout or failure of a stage while URL i is handled becomes
\* the result of URL i and never stops the batch: the script run does not
\* crash, and the URLs after i are processed and get their results.
C5_FailureIsolation ==
    /\ pc # "crashed"
    /\ \A e \in Entries :
          e.outcome \in {"nonzero", "timeout", "raise"} =>
             /\ e.i = i
             /\ pc \in Processing
             /\ pc = "append" => ~IsNone(result)
    /\ \A k \in 1..Len(results) :
          FaultResult(results[k]) =>
             IF pc \in {"summary", "done"}
             THEN \A j \in (k + 1)..Len(urls) :
                     j <= Len(results) /\ results[j].url = Some(urls[j])
             ELSE i = Len(results) + 1 /\ i <= Len(urls) /\ pc \in Processing \cup {"loop"}

C5_Witness ==
    /\ pc = "done"
    /\ Len(results) = 2
    /\ results[1].error = Some("[Errno 13] Permission denied")
    /\ results[2].success

\* C6: the transcript preview of a success is the transcript itself when it
\* has at most 200 characters, and its first 200 characters followed by
\* "..." when it has more.
C6_PreviewLaw ==
    pc = "append" /\ ~IsNone(result) /\ Val(result).success /\ ~IsNone(transcript) =>
       LET t == Val(transcript)
           p == Val(Val(result).transcript)
       IN /\ Len(t) <= PreviewLimit => p = t
          /\ Len(t) > PreviewLimit =>
                /\ Len(p) = PreviewLimit + 3
                /\ SubSeq(p, 1, PreviewLimit) = SubSeq(t, 1, PreviewLimit)
                /\ SubSeq(p, PreviewLimit + 1, PreviewLimit + 3) = "..."

C6_Witness ==
    /\ pc = "append"
    /\ Len(results) = 1
    /\ results[1].success
    /\ Len(Val(results[1].transcript)) = PreviewLimit
    /\ ~IsNone(result) /\ Val(result).success
    /\ Len(Val(transcript)) = PreviewLimit + 1
    /\ Len(Val(Val(result).transcript)) = PreviewLimit + 3

\* the number of successes among the results
Successes == Cardinality({ k \in 1..Len(results) : results[k].success })

\* C7 as stated: the script run never fails on a division by zero, and a
\* finished run shows a success rate, which is successes / total and 0 when
\* there is no URL.
C7_RateZeroWhenEmpty ==
    /\ pc # "crashed"
    /\ pc = "done" /\ button =>
          /\ ~IsNone(summary)
          /\ IF Len(urls) = 0 THEN Val(summary).rate = 0
             ELSE 2 * (Val(summary).rate * Len(urls) - 1000 * Successes) \in
                     (0 - Len(urls))..Len(urls)

\* C7 amended: the script run never fails on a division by zero; for a
\* batch with at least one URL the summary's success rate is
\* successes / total (as a percentage to one decimal); for an input with no
\* non-blank line the run returns before the loop and shows no summary.
C7_SuccessRate ==
    /\ pc # "crashed"
    /\ ~IsNone(summary) =>
          /\ Val(summary).total = Len(urls)
          /\ Val(summary).total >= 1
          /\ Val(summary).successful = Successes
          /\ 2 * (Val(summary).rate * Val(summary).total - 1000 * Successes) \in
                (0 - Val(summary).total)..Val(summary).total
    /\ pc = "done" /\ button /\ Len(ParseUrls(urls_text)) > 0 => ~IsNone(summary)
    /\ pc = "done" /\ Len(ParseUrls(urls_text)) = 0 => IsNone(summary) /\ results = <<>>

C7_Witness ==
    /\ pc = "done"
    /\ ~IsNone(summary)
    /\ Val(summary).total = 2
    /\ Val(summary).successful = 1
    /\ Val(summary).rate = 500

\* C8: when the text-generation call fails, _generate_caption returns the
\* sentinel text with the exception's text, the URL's result is a success
\* with that caption, and the summary counts it as a success.
C8_SentinelCaptionIsSuccess ==
    /\ \A e \in Entries :
          e.fn = "_generate_caption" /\ e.outcome = "raise" =>
             /\ e.ret = Some("(x) Caption error: " \o e.err)
             /\ pc = "append"
             /\ ~IsNone(result)
             /\ Val(result).success
             /\ Val(result).caption = e.ret
             /\ IsNone(Val(result).error)
    /\ \A k \in 1..Len(results) :
          ~IsNone(results[k].caption) => results[k].success
    /\ ~IsNone(summary) =>
          Val(summary).successful >=
             Cardinality({ k \in 1..Len(results) :
                             results[k].caption = Some("(x) Caption error: Rate limit reached") })

C8_Witness ==
    /\ pc = "done"
    /\ ~IsNone(summary)
    /\ Val(summary).successful = 1
    /\ Len(results) = 1
    /\ results[1].success
    /\ results[1].caption = Some("(x) Caption error: Rate limit reached")

\* the Resolver has returned, without a transcript, for a well-shaped URL
ResolvedAbsent ==
    /\ pc \in {"resolved", "caption", "append"}
    /\ ~LacksShape(urls[i])
    /\ ~Truthy(transcript)
    /\ \A e \in Entries : e.outcome # "raise" \/ e.fn # "os.unlink"

\* C9 as stated: a well-shaped URL whose transcript is absent gets the
\* failure result with the reason "transcript unavailable", and
\* _generate_caption does not run for it.
C9_TranscriptUnavailable ==
    ResolvedAbsent =>
       /\ pc # "caption"
       /\ \A e \in Entries : e.fn # "_generate_caption"
       /\ pc = "append" =>
             /\ ~IsNone(result)
             /\ ~Val(result).success
             /\ Val(result).error = Some("transcript unavailable")

\* C9 amended: a well-shaped URL whose transcript is absent (None or empty)
\* gets the failure result with the reason "Could not extract transcript",
\* and _generate_caption does not run for it.
C9_CouldNotExtract ==
    ResolvedAbsent =>
       /\ pc # "caption"
       /\ \A e \in Entries : e.fn # "_generate_caption"
       /\ pc = "append" =>
             /\ ~IsNone(result)
             /\ ~Val(result).success
             /\ Val(result).error = Some("Could not extract transcript")
             /\ IsNone(Val(result).caption)

C9_Witness ==
    /\ pc = "append"
    /\ ResolvedAbsent
    /\ \E e \in Entries : e.fn = "_transcribe_audio" /\ e.ret = Some("")
    /\ Val(result).error = Some("Could not extract transcript")

\* C10: with no credential in the environment the script run stops at the
\* start: no URL is parsed or processed, no result exists, no function of the
\* pipeline runs and no file is created.
C10_NoCredentialStops ==
    ~Truthy(env_key) =>
       /\ pc \in {"main", "stopped"}
       /\ urls = <<>>
       /\ results = <<>>
       /\ IsNone(result)
       /\ calls = <<>>
       /\ disk = EmptyDisk
       /\ IsNone(summary)

C10_Witness ==
    /\ pc = "stopped"
    /\ IsNone(env_key)
    /\ button
    /\ Len(ParseUrls(urls_text)) = 2

\* the subtitle tool's run gave no cue file to read: it exited non-zero, it
\* exited zero without a cue file, the wait expired or it did not start
NoCaptions(e) ==
    /\ e.fn = "_get_auto_transcript"
    /\ \/ e.outcome \in {"nonzero", "timeout", "raise"}
       \/ e.outcome = "zero" /\ IsNone(vtt_content)

\* C11: when the subtitle tool exits non-zero, writes no cue file or runs
\* past its wait, _get_auto_transcript returns None, nothing is raised, and
\* the next function _extract_transcript runs for the URL is _download_audio.
C11_FetcherAbsenceFallsBack ==
    /\ pc # "crashed"
    /\ \A k \in 1..Len(calls) :
          NoCaptions(calls[k]) =>
             /\ IsNone(calls[k].ret)
             /\ IsNone(vtt_content)
             /\ IsNone(result) \/ pc = "append"
             /\ IF k = Len(calls)
                THEN pc = "acquire" /\ IsNone(transcript)
                ELSE calls[k + 1].fn = "_download_audio" /\ calls[k + 1].i = calls[k].i

C11_Witness ==
    /\ pc = "transcribe"
    /\ Len(calls) = 3
    /\ calls[2].fn = "_get_auto_transcript"
    /\ calls[2].outcome = "nonzero"
    /\ calls[3].fn = "_download_audio"

\* C12: in the audio fallback _transcribe_audio runs only right after
\* _download_audio returned a path (never after it returned None), the file
\* is unlinked only right after _transcribe_audio returned, and once it is
\* unlinked the Resolver returns the transcription result: no further
\* function of the fallback runs and the file is gone.
C12_FallbackOrder ==
    /\ pc \in {"transcribe", "delete"} => ~IsNone(audio_path)
    /\ \A k \in 1..Len(calls) :
          /\ calls[k].fn = "_download_audio" =>
                /\ k > 1 /\ calls[k - 1].fn = "_get_auto_transcript"
                /\ calls[k].ret = audio_path
                /\ IsNone(calls[k].ret) =>
                      \A j \in 1..Len(calls) :
                         calls[j].fn \notin {"_transcribe_audio", "os.unlink"}
          /\ calls[k].fn = "_transcribe_audio" =>
                /\ k > 1 /\ calls[k - 1].fn = "_download_audio"
                /\ ~IsNone(calls[k - 1].ret)
                /\ k = Len(calls) => pc = "delete" /\ transcript = calls[k].ret
          /\ calls[k].fn = "os.unlink" =>
                /\ k > 1 /\ calls[k - 1].fn = "_transcribe_audio"
                /\ \A j \in (k + 1)..Len(calls) : calls[j].fn = "_generate_caption"
                /\ pc \in {"resolved", "caption", "append"}
                /\ calls[k].outcome = "ok" =>
                      /\ ~Exists(disk, Val(audio_path))
                      /\ pc = "resolved" => transcript = calls[k - 1].ret
    /\ pc = "resolved" /\ ~IsNone(audio_path) =>
          /\ ~Exists(disk, Val(audio_path))
          /\ \E k \in 1..Len(calls) : calls[k].fn = "_transcribe_audio"

C12_Witness ==
    /\ pc = "resolved"
    /\ Len(calls) = 5
    /\ calls[3].fn = "_download_audio"
    /\ calls[4].fn = "_transcribe_audio"
    /\ calls[4].ext
    /\ calls[5].fn = "os.unlink"
    /\ Truthy(transcript)

\* C13: the speech-to-text service is called only with a file that exists
\* and is not empty; for a missing or empty file _transcribe_audio returns
\* None without the call; an error of the call becomes None.
C13_NoEmptyAudioSent ==
    pc = "delete" =>
       LET e == calls[Len(calls)]
           p == Val(audio_path)
       IN /\ e.fn = "_transcribe_audio"
          /\ e.ext => Exists(disk, p) /\ disk[p] > 0
          /\ ~Exists(disk, p) => ~e.ext /\ IsNone(e.ret) /\ IsNone(transcript)
          /\ Exists(disk, p) /\ disk[p] = 0 => ~e.ext /\ IsNone(e.ret) /\ IsNone(transcript)
          /\ e.outcome = "raise" => IsNone(e.ret) /\ IsNone(transcript)

C13_Witness ==
    /\ pc = "delete"
    /\ Exists(disk, Val(audio_path))
    /\ disk[Val(audio_path)] = 0
    /\ ~calls[Len(calls)].ext

\* the three names _download_audio looks for, made from the temporary name
Mp3Path == Val(temp_path)
M4aPath == SubSeq(Val(temp_path), 1, Len(Val(temp_path)) - 4) \o ".m4a"
WebmPath == SubSeq(Val(temp_path), 1, Len(Val(temp_path)) - 4) \o ".webm"

\* C14: right after _download_audio, when the downloader exited zero the
\* path returned is the .mp3 name if it exists, else the .m4a name if it
\* exists, else the .webm name if it exists, else None; when the downloader
\* exited non-zero or timed out, None.
C14_FirstExistingFile ==
    Len(calls) > 0 /\ calls[Len(calls)].fn = "_download_audio" =>
       LET e == calls[Len(calls)] IN
       /\ e.ret = audio_path
       /\ e.outcome = "zero" =>
             audio_path = IF Exists(disk, Mp3Path) THEN Some(Mp3Path)
                          ELSE IF Exists(disk, M4aPath) THEN Some(M4aPath)
                          ELSE IF Exists(disk, WebmPath) THEN Some(WebmPath)
                          ELSE None
       /\ e.outcome # "zero" => IsNone(audio_path) /\ pc \in {"resolved", "append"}

C14_Witness ==
    /\ pc = "transcribe"
    /\ calls[Len(calls)].fn = "_download_audio"
    /\ ~Exists(disk, Mp3Path)
    /\ Exists(disk, M4aPath)
    /\ Exists(disk, WebmPath)
    /\ audio_path = Some(M4aPath)

\* C15 as stated: what _extract_transcript returns is never the empty string.
C15_NeverEmptyString ==
    pc = "resolved" => transcript # Some("")

\* C15 amended: the subtitle tier never makes _extract_transcript return the
\* empty string (a cue file without text lines sends it to the audio
\* fallback); the audio tier returns what _transcribe_audio returned, which
\* is the empty string when the speech-to-text service returns it, and
\* process_shorts_url then treats it as no transcript.
C15_EmptyOnlyFromTranscriber ==
    /\ pc = "resolved" /\ transcript = Some("") =>
          \E k \in 1..Len(calls) :
             /\ calls[k].fn = "_transcribe_audio"
             /\ calls[k].ext
             /\ calls[k].ret = Some("")
    /\ \A k \in 1..Len(calls) :
          calls[k].fn = "_get_auto_transcript" /\ calls[k].ret = Some("") =>
             IF k = Len(calls) THEN pc = "acquire"
             ELSE calls[k + 1].fn = "_download_audio"
    /\ pc \in {"caption", "append"} /\ transcript = Some("") =>
          /\ pc = "append"
          /\ ~Val(result).success

C15_Witness ==
    /\ pc = "resolved"
    /\ calls[2].fn = "_get_auto_transcript"
    /\ calls[2].ret = Some("")
    /\ \E k \in 1..Len(calls) : calls[k].fn = "_transcribe_audio" /\ calls[k].ret # Some("")
    /\ Truthy(transcript)

\* the lines of the cue file read, without the blanks around them
CueLines == LET ls == Split(Val(vtt_content), "\n") IN [k \in 1..Len(ls) |-> Strip(ls[k])]

\* line k belongs to the header of the cue file: the WEBVTT line and the
\* lines after it up to the first blank line
IsHeaderLine(k) ==
    /\ StartsWith(CueLines[1], "WEBVTT")
    /\ \A j \in 1..k : CueLines[j] # ""

\* line k is cue text: not blank, no header line, no timing line, no index line
IsTextLine(k) ==
    /\ CueLines[k] # ""
    /\ ~IsHeaderLine(k)
    /\ ~Contains(CueLines[k], "-->")
    /\ ~IsDigit(CueLines[k])

\* the text lines from line k on, in file order
RECURSIVE TextLinesFrom(_)
TextLinesFrom(k) ==
    IF k > Len(CueLines) THEN <<>>
    ELSE (IF IsTextLine(k) THEN <<CueLines[k]>> ELSE <<>>) \o TextLinesFrom(k + 1)

\* C16: the text _get_auto_transcript returns for a cue file is the file's
\* lines without the header lines, the timing lines, the numeric index lines
\* and the blank lines, in file order, joined by single spaces.
C16_CueTextOnly ==
    \A k \in 1..Len(calls) :
       calls[k].fn = "_get_auto_transcript" /\ ~IsNone(vtt_content) =>
          calls[k].ret = Some(Join(" ", TextLinesFrom(1)))

\* C17: the URLs are processed one at a time: every function logged runs for
\* the URL whose turn it is, after the results of all earlier URLs were
\* appended and before its own, and no function runs twice for a URL.
C17_OneAtATime ==
    /\ \A k \in 1..Len(calls) :
          /\ calls[k].i = i
          /\ pc \in Processing
          /\ Len(results) = calls[k].i - 1
          /\ \A j \in 1..Len(results) : results[j].url = Some(urls[j])
    /\ \A j, k \in 1..Len(calls) : j # k => calls[j].fn # calls[k].fn
    /\ Cardinality({ k \in 1..Len(calls) : calls[k].ext }) <= 4
    /\ pc \notin Processing => calls = <<>>

C17_Witness ==
    /\ pc = "append"
    /\ i = 2
    /\ Len(results) = 1
    /\ results[1].success
    /\ Len(calls) = 6
    /\ Cardinality({ k \in 1..Len(calls) : calls[k].ext }) = 4

\* C18: the file _download_audio returns is one the downloader wrote, never
\* the empty file _download_audio itself made at the .mp3 name; when the
\* downloader wrote only the .m4a or the .webm file, that file is returned.
C18_ReturnsDownloadedFile ==
    pc = "transcribe" =>
       /\ disk[Val(audio_path)] \in WrittenSizes
       /\ disk[Mp3Path] = 0 /\ Exists(disk, M4aPath) => audio_path = Some(M4aPath)

\* a result dict has one of the two shapes
SuccessShape(r) ==
    /\ r.success
    /\ ~IsNone(r.caption)
    /\ ~IsNone(r.transcript) /\ Val(r.transcript) # ""
    /\ IsNone(r.error)

FailureShape(r) ==
    /\ ~r.success
    /\ ~IsNone(r.error)
    /\ IsNone(r.caption)
    /\ IsNone(r.transcript)

\* C19: every result dict is a success with a caption, a non-empty
\* transcript preview and no error, or a failure with an error and neither
\* caption nor preview; _generate_caption never gets an empty transcript;
\* the summary's successes and failures add up to its total.
C19_ResultShapes ==
    /\ \A k \in 1..Len(results) : SuccessShape(results[k]) \/ FailureShape(results[k])
    /\ ~IsNone(result) => SuccessShape(Val(result)) \/ FailureShape(Val(result))
    /\ pc = "caption" => Truthy(transcript)
    /\ \A k \in 1..Len(calls) :
          calls[k].fn = "_generate_caption" => calls[k].ext /\ Truthy(transcript)
    /\ ~IsNone(summary) =>
          /\ Val(summary).successful + Val(summary).failed = Val(summary).total
          /\ Val(summary).failed =
                Cardinality({ k \in 1..Len(results) : FailureShape(results[k]) })

C19_Witness ==
    /\ pc = "done"
    /\ ~IsNone(summary)
    /\ Val(summary).successful = 1
    /\ Val(summary).failed = 1
    /\ SuccessShape(results[1])
    /\ FailureShape(results[2])

\* the stages of one URL's pipeline
Stages == {"process_shorts_url", "_get_auto_transcript", "_download_audio",
           "_transcribe_audio", "os.unlink", "_generate_caption"}

\* C20: a batch with at least one URL reaches the summary with a result for
\* every URL, and the pipeline of a URL goes through each of its six stages
\* at most once.
C20_BatchTerminates ==
    /\ [](/\ \A k \in 1..Len(calls) : calls[k].fn \in Stages
          /\ \A j, k \in 1..Len(calls) : j < k => calls[j].fn # calls[k].fn
          /\ Len(calls) <= 6)
    /\ (pc = "loop" /\ i = 1) ~>
          (pc = "done" /\ ~IsNone(summary) /\ Len(results) = Len(urls)
             /\ Val(summary).total = Len(urls))

C20_Witness ==
    /\ pc = "done"
    /\ ~IsNone(summary)
    /\ Len(urls) = 2
    /\ Len(results) = 2
    /\ results[1].success
    /\ results[2].success

====
